---- MODULE Spec2Model ----
(***************************************************************************)
(* A model of CrosswordCreator (generate.py): the domain store, node       *)
(* consistency, revise, AC-3 and the backtracking search of solve().       *)
(* Words are sequences of letters; slots are records (i, j, direction,     *)
(* length); a puzzle is a set of slots plus a vocabulary.                  *)
(***************************************************************************)
EXTENDS Integers, Sequences, FiniteSets, TLC

VARIABLES crossword, domains, arcs, ac3Result, assignment, stack, result, pc

vars == <<crossword, domains, arcs, ac3Result, assignment, stack, result, pc>>

(***************************************************************************)
(* Bounds of the model.                                                    *)
(***************************************************************************)
\* the largest vocabulary (number of words in the word list)
MaxVocab == 5
\* the longest initial arc list handed to ac3(arcs)
MaxArcs == 1

(***************************************************************************)
(* The puzzle structure (crossword.py): slots, cells, overlaps,            *)
(* neighbours.                                                             *)
(***************************************************************************)
ACROSS == "across"
DOWN == "down"

None == <<>>

Variable(i, j, direction, length) ==
    [i |-> i, j |-> j, direction |-> direction, length |-> length]

\* the k-th cell (k zero-based) of a slot
Cell(v, k) ==
    <<v.i + (IF v.direction = DOWN THEN k ELSE 0),
      v.j + (IF v.direction = ACROSS THEN k ELSE 0)>>

\*  _ _ _      A across (0,0) length 3, B down (0,0) length 2,
\*  _ # _      C down (0,2) length 3: the chain B - A - C
\*  # # _
ChainVariables ==
    { Variable(0, 0, ACROSS, 3), Variable(0, 0, DOWN, 2), Variable(0, 2, DOWN, 3) }

\*  # _ # _ _  A across (1,0) length 3, B down (0,1) length 3 crossing A,
\*  _ _ _ # #  D across (0,3) length 2 crossing nothing
\*  # _ # # #
LoneVariables ==
    { Variable(1, 0, ACROSS, 3), Variable(0, 1, DOWN, 3), Variable(0, 3, ACROSS, 2) }

Structures == { ChainVariables, LoneVariables }

\* the word list the vocabularies are drawn from
WordPool ==
    { <<"a">>,
      <<"a", "b">>, <<"b", "a">>, <<"b", "b">>,
      <<"a", "b", "a">>, <<"a", "b", "b">>, <<"b", "a", "b">>, <<"b", "b", "a">> }

Vocabularies == { ws \in SUBSET WordPool : Cardinality(ws) <= MaxVocab }

\* crossword.overlaps[x, y]: None, or the zero-based pair of indices of the
\* shared cell in x and in y
overlaps(x, y) ==
    LET shared == { p \in (0 .. x.length - 1) \X (0 .. y.length - 1) :
                        Cell(x, p[1]) = Cell(y, p[2]) }
    IN  IF shared = {} THEN None ELSE CHOOSE p \in shared : TRUE

\* crossword.neighbors(var)
neighbors(var) ==
    { v \in crossword.variables : v # var /\ overlaps(v, var) # None }

\* the letter of a word at a zero-based index
At(word, k) == word[k + 1]

\* all the orders a finite set can be listed in
Perms(S) ==
    { s \in [1 .. Cardinality(S) -> S] :
        \A a, b \in 1 .. Cardinality(S) : a # b => s[a] # s[b] }

\* all lists of at most n elements of S
ListsUpTo(S, n) == UNION { [1 .. k -> S] : k \in 0 .. n }

(***************************************************************************)
(* __init__                                                                *)
(***************************************************************************)
InitDomains(cw) == [var \in cw.variables |-> cw.words]

(***************************************************************************)
(* enforce_node_consistency                                                *)
(***************************************************************************)
\* a filter that drops only the words that are too short
enforce_node_consistency_short(doms) ==
    [variable \in DOMAIN doms |->
        { word \in doms[variable] : Len(word) >= variable.length }]

enforce_node_consistency(doms) ==
    LET removeWords == { p \in (DOMAIN doms) \X WordPool :
                            p[2] \in doms[p[1]] /\ Len(p[2]) # p[1].length }
    IN  [variable \in DOMAIN doms |->
            doms[variable] \ { p[2] : p \in { q \in removeWords : q[1] = variable } }]

(***************************************************************************)
(* revise                                                                  *)
(***************************************************************************)
\* the inner loop: some wordY of y's domain matches wordX at the overlap
palFound(doms, x, y, wordX) ==
    \E wordY \in doms[y] :
        /\ overlaps(x, y) # None
        /\ At(wordX, overlaps(x, y)[1]) = At(wordY, overlaps(x, y)[2])
        /\ wordX # wordY

\* a revise that reports a revision whether or not it removed a word
revise_always(doms, x, y) ==
    LET removeWords == { wordX \in doms[x] : ~palFound(doms, x, y, wordX) }
    IN  [domains |-> [doms EXCEPT ![x] = @ \ removeWords],
         revisionMade |-> TRUE]

\* a revise that accepts the word itself as its partner
revise_self(doms, x, y) ==
    LET removeWords ==
            { wordX \in doms[x] :
                ~\E wordY \in doms[y] :
                    /\ overlaps(x, y) # None
                    /\ At(wordX, overlaps(x, y)[1]) = At(wordY, overlaps(x, y)[2]) }
    IN  [domains |-> [doms EXCEPT ![x] = @ \ removeWords],
         revisionMade |-> removeWords # {}]

\* a revise that reads the overlap pair the wrong way round
revise_swapped(doms, x, y) ==
    LET removeWords ==
            { wordX \in doms[x] :
                ~\E wordY \in doms[y] :
                    /\ overlaps(x, y) # None
                    /\ At(wordX, overlaps(x, y)[2]) = At(wordY, overlaps(x, y)[1])
                    /\ wordX # wordY }
    IN  [domains |-> [doms EXCEPT ![x] = @ \ removeWords],
         revisionMade |-> removeWords # {}]

\* a revise on domains that are all one shared set: the words go from every slot
revise_shared(doms, x, y) ==
    LET removeWords == { wordX \in doms[x] : ~palFound(doms, x, y, wordX) }
    IN  [domains |-> [v \in DOMAIN doms |-> doms[v] \ removeWords],
         revisionMade |-> removeWords # {}]

revise(doms, x, y) ==
    LET removeWords == { wordX \in doms[x] : ~palFound(doms, x, y, wordX) }
    IN  [domains |-> [doms EXCEPT ![x] = @ \ removeWords],
         revisionMade |-> removeWords # {}]

(***************************************************************************)
(* ac3                                                                     *)
(***************************************************************************)
\* the initial list when arcs is None: every pair with an overlap
DefaultArcs ==
    { p \in crossword.variables \X crossword.variables :
        p[1] # p[2] /\ overlaps(p[1], p[2]) # None }

\* every pair the overlap table has an entry for
AllPairs ==
    { p \in crossword.variables \X crossword.variables : p[1] # p[2] }

\* an ac3 that appends nothing after a revision
Requeued_none(x) == {}

\* an ac3 that appends the arcs (x, z) instead of (z, x)
Requeued_reversed(x) == { <<x, neighbor>> : neighbor \in neighbors(x) }

\* the arcs appended after a revision of x
Requeued(x) == { <<neighbor, x>> : neighbor \in neighbors(x) }

\* a final check that looks only at the slots that have a neighbour
NoDomainEmpty_arcs(doms) ==
    \A v \in DOMAIN doms : neighbors(v) # {} => doms[v] # {}

\* the final check over self.domains.values()
NoDomainEmpty(doms) == \A v \in DOMAIN doms : doms[v] # {}

(***************************************************************************)
(* assignment_complete, consistent, order_domain_values,                   *)
(* select_unassigned_variable                                              *)
(***************************************************************************)
assignment_complete(asg) ==
    \A variable \in crossword.variables : variable \in DOMAIN asg

\* a check that reads the overlap pair the wrong way round
consistent_swapped(asg) ==
    /\ \A variableA, variableB \in DOMAIN asg :
          variableA # variableB => asg[variableA] # asg[variableB]
    /\ \A variable \in DOMAIN asg : Len(asg[variable]) = variable.length
    /\ \A variableA, variableB \in DOMAIN asg :
          (variableA # variableB /\ overlaps(variableA, variableB) # None)
            => At(asg[variableA], overlaps(variableA, variableB)[2])
                 = At(asg[variableB], overlaps(variableA, variableB)[1])

\* a check that forgets that the words must be distinct
consistent_repeats(asg) ==
    /\ \A variable \in DOMAIN asg : Len(asg[variable]) = variable.length
    /\ \A variableA, variableB \in DOMAIN asg :
          (variableA # variableB /\ overlaps(variableA, variableB) # None)
            => At(asg[variableA], overlaps(variableA, variableB)[1])
                 = At(asg[variableB], overlaps(variableA, variableB)[2])

consistent(asg) ==
    /\ \A variableA, variableB \in DOMAIN asg :
          variableA # variableB => asg[variableA] # asg[variableB]
    /\ \A variable \in DOMAIN asg : Len(asg[variable]) = variable.length
    /\ \A variableA, variableB \in DOMAIN asg :
          (variableA # variableB /\ overlaps(variableA, variableB) # None)
            => At(asg[variableA], overlaps(variableA, variableB)[1])
                 = At(asg[variableB], overlaps(variableA, variableB)[2])

\* the lists list(self.domains[var]) can be: the set in any iteration order
order_domain_values(var, asg) == Perms(domains[var])

\* a choice among all the slots, assigned or not
select_unassigned_variable_any(asg) == crossword.variables

\* the slots sample(unassignedVariables, 1)[0] can be
select_unassigned_variable(asg) == crossword.variables \ DOMAIN asg

\* assignment[var] = value  and  assignment.pop(var)
Put(asg, var, value) ==
    [v \in (DOMAIN asg) \cup {var} |-> IF v = var THEN value ELSE asg[v]]

\* a pop that leaves the entry in place
Pop_keeps(asg, var) == asg

Pop(asg, var) == [v \in (DOMAIN asg) \ {var} |-> asg[v]]

EmptyAssignment == [v \in {} |-> <<>>]

(***************************************************************************)
(* The state machine of solve()                                            *)
(***************************************************************************)
Init ==
    /\ crossword \in { [variables |-> vs, words |-> ws] :
                          vs \in Structures, ws \in Vocabularies }
    /\ domains = InitDomains(crossword)
    /\ arcs = <<>>
    /\ ac3Result = "pending"
    /\ assignment = EmptyAssignment
    /\ stack = <<>>
    /\ result = "pending"
    /\ pc = "solve"

EnforceNodeConsistency ==
    /\ pc = "solve"
    /\ domains' = enforce_node_consistency(domains)
    /\ pc' = "ac3"
    /\ UNCHANGED <<crossword, arcs, ac3Result, assignment, stack, result>>

\* ac3() as solve calls it: arcs is None
Ac3Default ==
    /\ pc = "ac3"
    /\ arcs' \in Perms(DefaultArcs)
    /\ pc' = "ac3_loop"
    /\ UNCHANGED <<crossword, domains, ac3Result, assignment, stack, result>>

\* ac3(arcs) with a list of the caller's
Ac3Given ==
    /\ pc = "ac3"
    /\ arcs' \in ListsUpTo(AllPairs, MaxArcs)
    /\ pc' = "ac3_given_loop"
    /\ UNCHANGED <<crossword, domains, ac3Result, assignment, stack, result>>

\* one turn of the while loop
Ac3Step ==
    /\ pc \in {"ac3_loop", "ac3_given_loop"}
    /\ Len(arcs) > 0
    /\ LET arc == arcs[1]
           r == revise(domains, arc[1], arc[2])
       IN  /\ domains' = r.domains
           /\ IF r.revisionMade
                 THEN \E added \in Perms(Requeued(arc[1])) :
                         arcs' = Tail(arcs) \o added
                 ELSE arcs' = Tail(arcs)
    /\ UNCHANGED <<crossword, ac3Result, assignment, stack, result, pc>>

Ac3Value == IF NoDomainEmpty(domains) THEN "True" ELSE "False"

\* the queue is exhausted inside solve: ac3 returns, backtrack(dict()) is called
Ac3Return ==
    /\ pc = "ac3_loop"
    /\ Len(arcs) = 0
    /\ ac3Result' = Ac3Value
    /\ pc' = "backtrack"
    /\ UNCHANGED <<crossword, domains, arcs, assignment, stack, result>>

\* the queue is exhausted in a direct call of ac3(arcs)
Ac3GivenReturn ==
    /\ pc = "ac3_given_loop"
    /\ Len(arcs) = 0
    /\ ac3Result' = Ac3Value
    /\ pc' = "done"
    /\ UNCHANGED <<crossword, domains, arcs, assignment, stack, result>>

\* backtrack entered with a complete assignment: it is returned up every frame
BacktrackComplete ==
    /\ pc = "backtrack"
    /\ assignment_complete(assignment)
    /\ result' = "assignment"
    /\ pc' = "done"
    /\ UNCHANGED <<crossword, domains, arcs, ac3Result, assignment, stack>>

\* backtrack entered with a partial assignment: pick a slot, list its values
BacktrackSelect ==
    /\ pc = "backtrack"
    /\ ~assignment_complete(assignment)
    /\ \E var \in select_unassigned_variable(assignment) :
         \E values \in order_domain_values(var, assignment) :
            stack' = Append(stack, [var |-> var, values |-> values])
    /\ pc' = "for"
    /\ UNCHANGED <<crossword, domains, arcs, ac3Result, assignment, result>>

\* a turn that also strikes a rejected value from the slot's domain
BacktrackTry_prunes ==
    /\ pc = "for"
    /\ Len(stack[Len(stack)].values) > 0
    /\ LET frame == stack[Len(stack)]
           value == frame.values[1]
           assignmentCopy == Put(assignment, frame.var, value)
       IN  /\ stack' = [stack EXCEPT ![Len(stack)].values = Tail(@)]
           /\ IF consistent(assignmentCopy)
                 THEN /\ assignment' = Put(assignment, frame.var, value)
                      /\ domains' = domains
                      /\ pc' = "backtrack"
                 ELSE /\ assignment' = assignment
                      /\ domains' = [domains EXCEPT ![frame.var] = @ \ {value}]
                      /\ pc' = "for"
    /\ UNCHANGED <<crossword, arcs, ac3Result, result>>

\* one turn of the for loop of the innermost call
BacktrackTry ==
    /\ pc = "for"
    /\ Len(stack[Len(stack)].values) > 0
    /\ LET frame == stack[Len(stack)]
           value == frame.values[1]
           assignmentCopy == Put(assignment, frame.var, value)
       IN  /\ stack' = [stack EXCEPT ![Len(stack)].values = Tail(@)]
           /\ IF consistent(assignmentCopy)
                 THEN /\ assignment' = Put(assignment, frame.var, value)
                      /\ pc' = "backtrack"
                 ELSE /\ assignment' = assignment
                      /\ pc' = "for"
    /\ UNCHANGED <<crossword, domains, arcs, ac3Result, result>>

\* the for loop of the innermost call is over: it returns None
BacktrackFail ==
    /\ pc = "for"
    /\ Len(stack[Len(stack)].values) = 0
    /\ stack' = SubSeq(stack, 1, Len(stack) - 1)
    /\ IF Len(stack) = 1
          THEN /\ result' = "None"
               /\ assignment' = assignment
               /\ pc' = "done"
          ELSE /\ result' = result
               /\ assignment' = Pop(assignment, stack[Len(stack) - 1].var)
               /\ pc' = "for"
    /\ UNCHANGED <<crossword, domains, arcs, ac3Result>>

Next ==
    \/ EnforceNodeConsistency
    \/ Ac3Default
    \/ Ac3Step
    \/ Ac3Return
    \/ BacktrackComplete
    \/ BacktrackSelect
    \/ BacktrackTry
    \/ BacktrackFail

Spec == Init /\ [][Next]_vars

\* the interpreter runs the next statement of solve() whenever there is one
LiveSpec == Spec /\ WF_vars(Next)

\* every mapping of some of the slots to words of the vocabulary
Assignments ==
    UNION { [S -> crossword.words] : S \in SUBSET crossword.variables }

\* a caller that runs consistent(assignment) on a mapping of its own; result
\* holds the value the call returned
CallConsistent ==
    /\ pc = "solve"
    /\ \E asg \in Assignments :
          /\ assignment' = asg
          /\ result' = IF consistent(asg) THEN "True" ELSE "False"
    /\ pc' = "checked"
    /\ UNCHANGED <<crossword, domains, arcs, ac3Result, stack>>

NextConsistent == CallConsistent

SpecConsistent == Init /\ [][NextConsistent]_vars

\* a caller that runs enforce_node_consistency() and then ac3(arcs)
NextArcs ==
    \/ EnforceNodeConsistency
    \/ Ac3Given
    \/ Ac3Step
    \/ Ac3GivenReturn

SpecArcs == Init /\ [][NextArcs]_vars

\* the interpreter runs the next statement whenever there is one
LiveSpecArcs == SpecArcs /\ WF_vars(NextArcs)

(***************************************************************************)
(* Shared vocabulary of the properties                                     *)
(***************************************************************************)
RECURSIVE SumOver(_, _)
SumOver(f, S) ==
    IF S = {} THEN 0
    ELSE LET x == CHOOSE x \in S : TRUE IN f[x] + SumOver(f, S \ {x})

TotalWords(doms) == SumOver([v \in DOMAIN doms |-> Cardinality(doms[v])], DOMAIN doms)

\* the words of the vocabulary that fit a slot
Fitting(v) == { w \in crossword.words : Len(w) = v.length }

\* w of slot x has a partner in the domain of slot y
Supported(x, y, w) ==
    \E w2 \in domains[y] :
        w # w2 /\ At(w, overlaps(x, y)[1]) = At(w2, overlaps(x, y)[2])

\* a total assignment meets the three constraints of the puzzle
Valid(a) ==
    /\ DOMAIN a = crossword.variables
    /\ \A x, y \in crossword.variables : x # y => a[x] # a[y]
    /\ \A x \in crossword.variables : Len(a[x]) = x.length
    /\ \A x, y \in crossword.variables :
          (x # y /\ overlaps(x, y) # None)
            => At(a[x], overlaps(x, y)[1]) = At(a[y], overlaps(x, y)[2])

InSearch == pc \in {"backtrack", "for"}

(***************************************************************************)
(* C1. Whenever solve() returns an assignment (not None), it is complete   *)
(* and valid: every slot has a word, the words of two distinct slots       *)
(* differ, each word has its slot's length, and at every overlap (i, j)    *)
(* the two words agree - for every random slot choice and every order the  *)
(* domain values are tried in.                                             *)
(***************************************************************************)
SolutionValid == result = "assignment" => Valid(assignment)

\* solve() has returned an assignment of the chain puzzle
SolutionValidWitness ==
    /\ result = "assignment"
    /\ pc = "done"
    /\ crossword.variables = ChainVariables
    /\ Len(stack) = Cardinality(crossword.variables)

(***************************************************************************)
(* C2. Completeness of the search: if some complete assignment takes each  *)
(* slot's word from that slot's propagated domain and meets the three      *)
(* constraints, then backtrack({}) returns an assignment, whichever slot   *)
(* is picked at each level and whichever order the values are tried in.    *)
(***************************************************************************)
SolutionExists ==
    \E a \in [crossword.variables -> WordPool] :
        (\A v \in crossword.variables : a[v] \in domains[v]) /\ Valid(a)

SearchComplete == (pc = "done" /\ result # "pending" /\ SolutionExists) => result = "assignment"

\* a solution was found although an earlier candidate had to be undone or
\* was rejected on the way: the search is past its first branch
SearchCompleteWitness ==
    /\ pc = "done"
    /\ result = "assignment"
    /\ SolutionExists
    /\ \E k \in 1 .. Len(stack) :
          Len(stack[k].values) + 1 < Cardinality(domains[stack[k].var])

(***************************************************************************)
(* C3. When propagation leaves a domain empty (ac3 returns False), solve() *)
(* reports no solution without invoking the backtracking search.           *)
(***************************************************************************)
SearchSkipped == ac3Result = "False" => ~InSearch /\ stack = <<>>

(***************************************************************************)
(* C4. Arc consistency soundness: after enforce_node_consistency() and     *)
(* ac3() with the default arcs returning True, for every ordered pair of   *)
(* overlapping slots (x, y) every word of x's domain has a different word  *)
(* in y's domain that agrees with it at the overlap.                       *)
(***************************************************************************)
ArcConsistent ==
    ac3Result = "True" =>
        \A x, y \in crossword.variables :
            (x # y /\ overlaps(x, y) # None) =>
                \A w \in domains[x] : Supported(x, y, w)

\* ac3 returned True on the chain puzzle after removing a fitting word
ArcConsistentWitness ==
    /\ ac3Result = "True"
    /\ crossword.variables = ChainVariables
    /\ \E v \in crossword.variables : domains[v] # Fitting(v)

(***************************************************************************)
(* C5. Node consistency soundness: after enforce_node_consistency() the    *)
(* domain of every slot v is exactly the set of vocabulary words of length *)
(* v.length.                                                               *)
(***************************************************************************)
NodeConsistent ==
    pc = "ac3" => \A v \in crossword.variables : domains[v] = Fitting(v)

\* the filter has run and both removed a word and kept one
NodeConsistentWitness ==
    /\ pc = "ac3"
    /\ \E v \in crossword.variables :
          domains[v] # {} /\ domains[v] # crossword.words

(***************************************************************************)
(* C6. ac3() terminates for any finite vocabulary and initial arc list:    *)
(* the queue eventually runs empty, because arcs are appended only by a    *)
(* turn whose revise removed at least one word, and the total number of    *)
(* words in the domains never increases.                                   *)
(***************************************************************************)
Ac3Terminates ==
    /\ <>(pc = "done" /\ Len(arcs) = 0)
    /\ [][ /\ TotalWords(domains') <= TotalWords(domains)
           /\ (pc = "ac3_given_loop" /\ Len(arcs) > 0 /\ arcs' # Tail(arcs))
                 => TotalWords(domains') < TotalWords(domains) ]_vars

\* ac3(arcs) has returned with an empty queue after a revise removed a word
Ac3TerminatesWitness ==
    /\ pc = "done"
    /\ Len(arcs) = 0
    /\ \E v \in crossword.variables : domains[v] # Fitting(v)

(***************************************************************************)
(* C7. If x and y have no overlap, revise(x, y) changes no domain and      *)
(* returns False (so the turn of ac3 that ran it appends nothing).         *)
(***************************************************************************)
NoOverlapNoRevision ==
    [][ (pc = "ac3_given_loop" /\ Len(arcs) > 0
            /\ overlaps(arcs[1][1], arcs[1][2]) = None)
          => (domains' = domains /\ arcs' = Tail(arcs)) ]_vars

(***************************************************************************)
(* C8. ac3() returns False exactly when some slot's domain is empty once   *)
(* the queue is exhausted, and True otherwise; every slot is checked, also *)
(* one that overlaps no other slot.                                        *)
(***************************************************************************)
Ac3ReturnValue ==
    ac3Result # "pending" =>
        (ac3Result = "False" <=> \E v \in crossword.variables : domains[v] = {})

\* ac3 returned False because of the lone slot only
Ac3ReturnValueWitness ==
    /\ ac3Result = "False"
    /\ \E v \in crossword.variables : neighbors(v) = {} /\ domains[v] = {}
    /\ \A v \in crossword.variables : neighbors(v) # {} => domains[v] # {}

(***************************************************************************)
(* C9. select_unassigned_variable returns an unassigned slot with the      *)
(* fewest remaining candidates, and among those one with the most          *)
(* neighbours.                                                             *)
(***************************************************************************)
Degree(v) == Cardinality(neighbors(v))

MinimumRemaining(unassigned) ==
    { v \in unassigned :
        \A u \in unassigned : Cardinality(domains[v]) <= Cardinality(domains[u]) }

HighestDegree(tied) == { v \in tied : \A u \in tied : Degree(v) >= Degree(u) }

\* the slots assigned when the k-th nested call was entered
AssignedBelow(k) == { stack[j].var : j \in 1 .. k - 1 }

SelectionPolicy ==
    \A k \in 1 .. Len(stack) :
        stack[k].var \in
            HighestDegree(MinimumRemaining(crossword.variables \ AssignedBelow(k)))

(***************************************************************************)
(* C10. order_domain_values returns the words of var's domain in ascending *)
(* order of the number of values each would rule out in the domains of     *)
(* var's neighbours.                                                       *)
(***************************************************************************)
RuledOut(var, word) ==
    SumOver([n \in neighbors(var) |->
                Cardinality({ w \in domains[n] :
                    At(word, overlaps(var, n)[1]) # At(w, overlaps(var, n)[2]) })],
            neighbors(var))

ValueOrderPolicy ==
    \A k \in 1 .. Len(stack) :
        \A a, b \in 1 .. Len(stack[k].values) :
            a < b => RuledOut(stack[k].var, stack[k].values[a])
                       <= RuledOut(stack[k].var, stack[k].values[b])

(***************************************************************************)
(* C11. For overlapping x, y with overlap (i, j), revise(x, y) leaves in   *)
(* x's domain exactly the old words wx for which some wy of y's domain has *)
(* wx # wy and wx[i] = wy[j] (an empty domain of y empties x's), and it    *)
(* returns True exactly when it removed a word from x's domain.            *)
(***************************************************************************)
\* the turn of ac3 that is about to run revises an arc with an overlap
RevisingOverlap ==
    /\ pc \in {"ac3_loop", "ac3_given_loop"}
    /\ Len(arcs) > 0
    /\ overlaps(arcs[1][1], arcs[1][2]) # None

ReviseExact ==
    [][ RevisingOverlap =>
          LET x == arcs[1][1]
              y == arcs[1][2]
              kept == { wx \in domains[x] :
                          \E wy \in domains[y] :
                              wx # wy /\ At(wx, overlaps(x, y)[1]) = At(wy, overlaps(x, y)[2]) }
          IN  /\ domains'[x] = kept
              /\ (domains[y] = {} => domains'[x] = {})
              \* x has the neighbour y, so a True return shows as appended arcs
              /\ (arcs' # Tail(arcs)) <=> (domains'[x] # domains[x]) ]_vars

\* a slot with fitting words was emptied against a neighbour
ReviseExactWitness ==
    /\ pc = "ac3_loop"
    /\ \E x \in crossword.variables :
          /\ Fitting(x) # {}
          /\ domains[x] = {}
          /\ \E y \in neighbors(x) : Fitting(y) = {}

(***************************************************************************)
(* C12. The re-enqueue step of ac3: when revise(x, y) on the dequeued arc  *)
(* reports a revision, the arcs (z, x) are appended for every slot z that  *)
(* overlaps x other than y, and (y, x) is not; with no revision nothing is *)
(* appended.                                                               *)
(***************************************************************************)
\* the arcs a turn of the loop put behind the ones that were waiting
Appended == SubSeq(arcs', Len(arcs), Len(arcs'))

QueueKept == SubSeq(arcs', 1, Len(arcs) - 1) = Tail(arcs)

Elements(list) == { list[k] : k \in 1 .. Len(list) }

RequeueOthers ==
    [][ (pc \in {"ac3_loop", "ac3_given_loop"} /\ Len(arcs) > 0) =>
          LET x == arcs[1][1]
              y == arcs[1][2]
          IN  /\ QueueKept
              /\ Elements(Appended) =
                    IF domains' # domains
                       THEN { <<z, x>> : z \in neighbors(x) \ {y} }
                       ELSE {} ]_vars

\* C12 as the code has it: after a revision (z, x) is appended once for every
\* slot z that overlaps x, y included; with no revision nothing is appended
RequeueAll ==
    [][ (pc \in {"ac3_loop", "ac3_given_loop"} /\ Len(arcs) > 0) =>
          LET x == arcs[1][1]
          IN  /\ QueueKept
              /\ Elements(Appended) =
                    IF domains' # domains
                       THEN { <<z, x>> : z \in neighbors(x) }
                       ELSE {}
              /\ Len(Appended) = Cardinality(Elements(Appended)) ]_vars

\* the queue holds an arc twice: one was appended while its twin was waiting
RequeueAllWitness ==
    /\ pc = "ac3_loop"
    /\ \E a, b \in 1 .. Len(arcs) : a # b /\ arcs[a] = arcs[b]

(***************************************************************************)
(* C13. AC-3 is confluent: from the same node-consistent domains and the   *)
(* default arcs, the domains left when the queue is exhausted, and so the  *)
(* value ac3 returns, are the same for every listing of the initial arcs   *)
(* and every order of the appended ones. They are the one result of        *)
(* discarding unsupported words from all slots at once until none is left. *)
(***************************************************************************)
\* one round that drops, in every slot, the words lacking a partner
Pruned(doms) ==
    [x \in DOMAIN doms |->
        { wx \in doms[x] :
            \A y \in neighbors(x) :
                \E wy \in doms[y] :
                    wx # wy /\ At(wx, overlaps(x, y)[1]) = At(wy, overlaps(x, y)[2]) }]

RECURSIVE Closure(_)
Closure(doms) == IF Pruned(doms) = doms THEN doms ELSE Closure(Pruned(doms))

Confluent ==
    (pc = "backtrack" /\ ac3Result # "pending") =>
        LET final == Closure([v \in crossword.variables |-> Fitting(v)])
        IN  /\ domains = final
            /\ ac3Result = IF \E v \in crossword.variables : final[v] = {}
                              THEN "False" ELSE "True"

\* ac3 has returned on the chain puzzle having thinned a domain
ConfluentWitness ==
    /\ pc = "backtrack"
    /\ ac3Result # "pending"
    /\ crossword.variables = ChainVariables
    /\ \E v \in crossword.variables : domains[v] # Fitting(v) /\ domains[v] # {}

(***************************************************************************)
(* C14. Undo on failure: whenever a call backtrack(assignment) returns     *)
(* None, the assignment holds exactly the entries it held when the call    *)
(* was entered; a candidate that fails the consistency check is never      *)
(* written into the assignment.                                            *)
(***************************************************************************)
\* the entries of the slots picked by the calls enclosing the k-th call
EntriesBelow(asg, k) == [v \in AssignedBelow(k) |-> asg[v]]

UndoOnFailure ==
    [][ InSearch =>
          \* a call is entered holding the entries of its enclosing calls only
          /\ (pc = "backtrack" /\ pc' = "for")
                => assignment = EntriesBelow(assignment, Len(stack'))
          \* while a call is active no step touches the entries it was entered with
          /\ \A k \in 1 .. Len(stack) :
                k <= Len(stack') =>
                    /\ AssignedBelow(k) \subseteq DOMAIN assignment'
                    /\ EntriesBelow(assignment', k) = EntriesBelow(assignment, k)
          \* a call returns None holding those entries and no other
          /\ (pc = "for" /\ Len(stack') < Len(stack))
                => assignment = EntriesBelow(assignment, Len(stack))
          \* a rejected candidate leaves the assignment as it was
          /\ (pc = "for" /\ pc' = "for" /\ Len(stack') = Len(stack))
                => assignment' = assignment ]_vars

\* a value that was consistent, and so was written and searched under, is no
\* longer in the assignment: the nested call failed and the entry was removed
UndoOnFailureWitness ==
    /\ pc = "for"
    /\ Len(stack) >= 2
    /\ LET frame == stack[Len(stack)]
       IN  /\ frame.var \notin DOMAIN assignment
           /\ \E value \in domains[frame.var] \ Elements(frame.values) :
                 consistent(Put(assignment, frame.var, value))

(***************************************************************************)
(* C15. The backtracking search never modifies the domains: from the       *)
(* return of ac3() inside solve() to the return of solve() every slot's    *)
(* domain stays as it is, however many assignments are tried and undone.   *)
(***************************************************************************)
DomainsFrozen == [][ InSearch => domains' = domains ]_vars

\* the search is over after a call that ran through a domain of two or more
\* words, and propagation had thinned a domain before
DomainsFrozenWitness ==
    /\ pc = "done"
    /\ result # "pending"
    /\ \E v \in crossword.variables : domains[v] # Fitting(v)
    /\ \E k \in 1 .. Len(stack) :
          stack[k].values = <<>> /\ Cardinality(domains[stack[k].var]) >= 2

(***************************************************************************)
(* C16. The search always terminates, with a complete assignment or None,  *)
(* for every random slot choice; the recursion depth never exceeds the     *)
(* number of slots plus one, each nested call being entered with exactly   *)
(* one more assigned slot than its caller.                                 *)
(***************************************************************************)
\* the calls of backtrack that are active: one per frame, and the one entered
\* that has not picked its slot yet
Depth == Len(stack) + (IF pc = "backtrack" THEN 1 ELSE 0)

SearchTerminates ==
    /\ <>(pc = "done" /\ result \in {"assignment", "None"})
    /\ [](Depth <= Cardinality(crossword.variables) + 1)
    /\ [](pc = "backtrack" => Cardinality(DOMAIN assignment) = Depth - 1)

\* the deepest call: every slot is assigned, one call per slot encloses it
SearchTerminatesWitness ==
    /\ pc = "backtrack"
    /\ Depth = Cardinality(crossword.variables) + 1

(***************************************************************************)
(* C17. consistent(assignment) returns True exactly when, for the given    *)
(* partial or complete assignment, (a) the words of any two distinct       *)
(* assigned slots differ, (b) every assigned word has its slot's length,   *)
(* and (c) every two assigned slots that overlap agree on the shared       *)
(* letter; any single violation makes it return False.                     *)
(***************************************************************************)
\* (a): as many different words as assigned slots
WordsDiffer(a) == Cardinality({ a[v] : v \in DOMAIN a }) = Cardinality(DOMAIN a)

\* (b)
LengthsFit(a) == ~\E v \in DOMAIN a : Len(a[v]) # v.length

\* (c): no shared cell is given two different letters
LettersAgree(a) ==
    ~\E x, y \in DOMAIN a :
        \E i \in 0 .. x.length - 1, j \in 0 .. y.length - 1 :
            x # y /\ Cell(x, i) = Cell(y, j) /\ At(a[x], i) # At(a[y], j)

ConsistentIff ==
    pc = "checked" =>
        (result = "True" <=>
            (WordsDiffer(assignment) /\ LengthsFit(assignment) /\ LettersAgree(assignment)))

\* a partial assignment rejected for the crossing letters alone
ConsistentIffWitness ==
    /\ pc = "checked"
    /\ result = "False"
    /\ DOMAIN assignment # crossword.variables
    /\ WordsDiffer(assignment)
    /\ LengthsFit(assignment)
    /\ ~LettersAgree(assignment)

(***************************************************************************)
(* C18. Propagation preserves solutions: a word that some complete valid   *)
(* assignment over the original vocabulary gives to slot v is still in v's *)
(* domain after enforce_node_consistency() and ac3() with the default      *)
(* arcs; so solve() returns None only when the vocabulary admits no valid  *)
(* complete assignment at all.                                             *)
(***************************************************************************)
\* the valid complete assignments over the vocabulary
Solutions == { a \in [crossword.variables -> crossword.words] : Valid(a) }

\* checked while ac3 runs and when it has returned; the search that follows
\* leaves the domains alone
SolutionsPreserved ==
    /\ (pc = "ac3_loop" \/ (pc = "backtrack" /\ stack = <<>>))
          => \A a \in Solutions : \A v \in crossword.variables : a[v] \in domains[v]
    /\ result = "None" => Solutions = {}

\* a solution was returned from domains that propagation had thinned
SolutionsPreservedWitness ==
    /\ pc = "done"
    /\ result = "assignment"
    /\ ac3Result = "True"
    /\ \E v \in crossword.variables : domains[v] # Fitting(v)

(***************************************************************************)
(* C19. Search invariant: at every entry to backtrack during solve() the   *)
(* partial assignment passes the consistency check, holds only slots of    *)
(* the puzzle, and gives every slot a word of its propagated domain; the   *)
(* slot select_unassigned_variable picks is never one already assigned.    *)
(***************************************************************************)
SearchInvariant ==
    /\ [](pc = "backtrack" =>
            /\ WordsDiffer(assignment) /\ LengthsFit(assignment) /\ LettersAgree(assignment)
            /\ DOMAIN assignment \subseteq crossword.variables
            /\ \A v \in DOMAIN assignment : assignment[v] \in domains[v])
    /\ [][ (pc = "backtrack" /\ pc' = "for")
              => stack'[Len(stack')].var \notin DOMAIN assignment ]_vars

\* a nested call is entered with two slots assigned
SearchInvariantWitness ==
    /\ pc = "backtrack"
    /\ Cardinality(DOMAIN assignment) = 2
    /\ Cardinality(crossword.variables) > 2

(***************************************************************************)
(* C20. Domains shrink monotonically and independently: every slot starts  *)
(* with its own copy of the full vocabulary, no step of solve() adds a     *)
(* word to any domain, and revise(x, y) changes the domain of x only.      *)
(***************************************************************************)
DomainsShrink ==
    /\ (pc = "solve" => \A v \in crossword.variables : domains[v] = crossword.words)
    /\ [][ /\ \A v \in crossword.variables : domains'[v] \subseteq domains[v]
           /\ (pc \in {"ac3_loop", "ac3_given_loop"} /\ Len(arcs) > 0)
                 => \A v \in crossword.variables \ {arcs[1][1]} :
                        domains'[v] = domains[v] ]_vars

\* a revise has thinned one slot while another of the same length is intact
DomainsShrinkWitness ==
    /\ pc = "ac3_loop"
    /\ \E x, y \in crossword.variables :
          /\ x # y
          /\ x.length = y.length
          /\ domains[x] # Fitting(x)
          /\ domains[y] = Fitting(y)

====
